---------------------------- MODULE Spec2Model ----------------------------
(***************************************************************************)
(* A model of the Items API (src/lambda_function.py, src/app.py): the CRUD *)
(* handlers over the DynamoDB table "Items" and the cursor-paginated       *)
(* GET /v1/items.  Strings are sequences of code points, byte strings are  *)
(* sequences of 0..255; the cursor codec (json.dumps + base64.b64encode,   *)
(* base64.b64decode + json.loads) is computed character by character.      *)
(* A value that is used more than once is handed on as an operator's       *)
(* parameter, so every step of a computation is an operator of its own.    *)
(***************************************************************************)
EXTENDS Integers, Sequences, FiniteSets, TLC

(***************************************************************************)
(* Characters.  Printable lists ASCII 32..126 in order; Ord gives a        *)
(* character's code point, S turns a tuple of characters into a string.    *)
(***************************************************************************)
Printable ==
    << " ", "!", "\"", "#", "$", "%", "&", "'", "(", ")", "*", "+", ",", "-", ".", "/",
       "0", "1", "2", "3", "4", "5", "6", "7", "8", "9", ":", ";", "<", "=", ">", "?",
       "@", "A", "B", "C", "D", "E", "F", "G", "H", "I", "J", "K", "L", "M", "N", "O",
       "P", "Q", "R", "S", "T", "U", "V", "W", "X", "Y", "Z", "[", "\\", "]", "^", "_",
       "backtick", "a", "b", "c", "d", "e", "f", "g", "h", "i", "j", "k", "l", "m", "n", "o",
       "p", "q", "r", "s", "t", "u", "v", "w", "x", "y", "z", "{", "|", "}", "~" >>

OrdTable ==
    [c \in {Printable[i] : i \in 1..Len(Printable)} |->
        31 + (CHOOSE i \in 1..Len(Printable) : Printable[i] = c)]

Ord(c) == OrdTable[c]

S(chars) == [i \in 1..Len(chars) |-> Ord(chars[i])]

Min(a, b) == IF a < b THEN a ELSE b

\* The least element of a set of numbers, 0 for the empty set.
MinOf(set) == IF set = {} THEN 0 ELSE CHOOSE j \in set : \A k \in set : j <= k

\* s[i], -1 outside the string.
At(s, i) == IF i >= 1 /\ i <= Len(s) THEN s[i] ELSE -1

\* "".join(seqs), by halves.
RECURSIVE Concat(_)
RECURSIVE ConcatHalves(_, _)
ConcatHalves(seqs, h) ==
    Concat(SubSeq(seqs, 1, h)) \o Concat(SubSeq(seqs, h + 1, Len(seqs)))

Concat(seqs) ==
    IF Len(seqs) = 0 THEN <<>>
    ELSE IF Len(seqs) = 1 THEN seqs[1]
    ELSE ConcatHalves(seqs, Len(seqs) \div 2)

(***************************************************************************)
(* str.encode() / bytes.decode(): UTF-8.                                   *)
(***************************************************************************)
Utf8EncodeChar(c) ==
    IF c < 128 THEN <<c>>
    ELSE IF c < 2048 THEN <<192 + (c \div 64), 128 + (c % 64)>>
    ELSE IF c < 65536
         THEN <<224 + (c \div 4096), 128 + ((c \div 64) % 64), 128 + (c % 64)>>
    ELSE <<240 + (c \div 262144), 128 + ((c \div 4096) % 64),
           128 + ((c \div 64) % 64), 128 + (c % 64)>>

Utf8Encode(s) == Concat([i \in 1..Len(s) |-> Utf8EncodeChar(s[i])])

IsCont(b) == b >= 128 /\ b <= 191

\* The number of bytes of the UTF-8 sequence that starts with b0 b1 b2 b3,
\* 0 when they start no valid sequence (UnicodeDecodeError).
Utf8Len(b0, b1, b2, b3) ==
    IF b0 < 128 THEN 1
    ELSE IF b0 >= 194 /\ b0 <= 223 THEN (IF IsCont(b1) THEN 2 ELSE 0)
    ELSE IF b0 = 224 THEN (IF b1 >= 160 /\ b1 <= 191 /\ IsCont(b2) THEN 3 ELSE 0)
    ELSE IF b0 = 237 THEN (IF b1 >= 128 /\ b1 <= 159 /\ IsCont(b2) THEN 3 ELSE 0)
    ELSE IF b0 >= 225 /\ b0 <= 239 THEN (IF IsCont(b1) /\ IsCont(b2) THEN 3 ELSE 0)
    ELSE IF b0 = 240
         THEN (IF b1 >= 144 /\ b1 <= 191 /\ IsCont(b2) /\ IsCont(b3) THEN 4 ELSE 0)
    ELSE IF b0 >= 241 /\ b0 <= 243
         THEN (IF IsCont(b1) /\ IsCont(b2) /\ IsCont(b3) THEN 4 ELSE 0)
    ELSE IF b0 = 244
         THEN (IF b1 >= 128 /\ b1 <= 143 /\ IsCont(b2) /\ IsCont(b3) THEN 4 ELSE 0)
    ELSE 0

Utf8SeqLen(bytes, i) ==
    Utf8Len(bytes[i], At(bytes, i + 1), At(bytes, i + 2), At(bytes, i + 3))

Utf8CodePoint(bytes, i, len) ==
    IF len = 1 THEN bytes[i]
    ELSE IF len = 2 THEN (bytes[i] - 192) * 64 + (bytes[i + 1] - 128)
    ELSE IF len = 3
         THEN (bytes[i] - 224) * 4096 + (bytes[i + 1] - 128) * 64 + (bytes[i + 2] - 128)
    ELSE (bytes[i] - 240) * 262144 + (bytes[i + 1] - 128) * 4096
         + (bytes[i + 2] - 128) * 64 + (bytes[i + 3] - 128)

\* The bytes that start a sequence are those that continue none.
Utf8Starts(bytes) ==
    SelectSeq([i \in 1..Len(bytes) |-> i], LAMBDA i : ~IsCont(bytes[i]))

\* The sequence at bytes[i] is valid, of len bytes, and a new sequence or
\* the end of the input follows it.
Utf8SeqOk(bytes, i, len) ==
    /\ len # 0
    /\ i + len <= Len(bytes) => ~IsCont(bytes[i + len])

Utf8Valid(bytes) ==
    /\ Len(bytes) > 0 => ~IsCont(bytes[1])
    /\ \A i \in 1..Len(bytes) :
          ~IsCont(bytes[i]) => Utf8SeqOk(bytes, i, Utf8SeqLen(bytes, i))

Utf8Chars(bytes, starts) ==
    [k \in 1..Len(starts) |->
        Utf8CodePoint(bytes, starts[k], Utf8SeqLen(bytes, starts[k]))]

Utf8Decoded(bytes, valid) ==
    [ok |-> valid, str |-> IF valid THEN Utf8Chars(bytes, Utf8Starts(bytes)) ELSE <<>>]

\* bytes.decode(): [ok, str]; ok = FALSE is UnicodeDecodeError.
Utf8Decode(bytes) == Utf8Decoded(bytes, Utf8Valid(bytes))

(***************************************************************************)
(* base64.b64encode / base64.b64decode (standard alphabet, '=' padding).   *)
(***************************************************************************)
B64Alphabet ==
    S(<< "A", "B", "C", "D", "E", "F", "G", "H", "I", "J", "K", "L", "M", "N", "O", "P",
         "Q", "R", "S", "T", "U", "V", "W", "X", "Y", "Z", "a", "b", "c", "d", "e", "f",
         "g", "h", "i", "j", "k", "l", "m", "n", "o", "p", "q", "r", "s", "t", "u", "v",
         "w", "x", "y", "z", "0", "1", "2", "3", "4", "5", "6", "7", "8", "9", "+", "/" >>)

B64Pad == Ord("=")

\* table_a2b_base64: the sextet of each byte, 64 for a byte outside the
\* alphabet.
B64Table ==
    [b \in 0..255 |->
        IF \E i \in 1..64 : B64Alphabet[i] = b
        THEN (CHOOSE i \in 1..64 : B64Alphabet[i] = b) - 1
        ELSE 64]

B64Value(b) == B64Table[b]

B64Char(v) == B64Alphabet[v + 1]

\* The four characters of the one, two or three bytes bytes[i..i+n-1].
B64Quad(bytes, i, n) ==
    IF n = 1
    THEN << B64Char(bytes[i] \div 4), B64Char((bytes[i] % 4) * 16), B64Pad, B64Pad >>
    ELSE IF n = 2
    THEN << B64Char(bytes[i] \div 4),
            B64Char((bytes[i] % 4) * 16 + (bytes[i + 1] \div 16)),
            B64Char((bytes[i + 1] % 16) * 4), B64Pad >>
    ELSE << B64Char(bytes[i] \div 4),
            B64Char((bytes[i] % 4) * 16 + (bytes[i + 1] \div 16)),
            B64Char((bytes[i + 1] % 16) * 4 + (bytes[i + 2] \div 64)),
            B64Char(bytes[i + 2] % 64) >>

\* Three bytes to a quad, the last quad padded.
b64encode(bytes) ==
    Concat([g \in 1..((Len(bytes) + 2) \div 3) |->
                B64Quad(bytes, 3 * g - 2, Min(3, Len(bytes) - 3 * g + 3))])

(***************************************************************************)
(* binascii.a2b_base64 in its default (non-strict) mode, as b64decode      *)
(* calls it without validate.  Its loop reads the input byte by byte: a    *)
(* byte of the alphabet adds its sextet to the current quad (quad_pos is   *)
(* the number of sextets read so far, modulo 4) and resets pads; a pad     *)
(* read at quad_pos >= 2 counts in pads and ends the decoding once         *)
(* quad_pos + pads reaches 4; every other byte is skipped.  An incomplete  *)
(* quad at the end of the input is binascii.Error.                         *)
(***************************************************************************)
IsB64Char(b) == B64Value(b) < 64

\* quad_pos when data[j] is read.
B64QuadPos(data, j) == Cardinality({k \in 1..(j - 1) : IsB64Char(data[k])}) % 4

\* pads once the pad data[j] is counted: the pads since the last byte of the
\* alphabet.
B64Pads(data, j) ==
    Cardinality({k \in 1..j : /\ data[k] = B64Pad
                              /\ \A m \in k..j : ~IsB64Char(data[m])})

B64PadEnds(data, j, quad) ==
    data[j] = B64Pad /\ quad >= 2 /\ quad + B64Pads(data, j) >= 4

\* The index of the pad that ends the decoding, 0 when no pad does.
B64End(data) ==
    MinOf({j \in 1..Len(data) : B64PadEnds(data, j, B64QuadPos(data, j))})

B64SextetsOf(chars) == [k \in 1..Len(chars) |-> B64Value(chars[k])]

\* The sextets of data[1..n].
B64Sextets(data, n) == B64SextetsOf(SelectSeq(SubSeq(data, 1, n), IsB64Char))

\* The byte at place r (0, 1, 2) of the quad that follows vals[g].
B64Byte(vals, g, r) ==
    IF r = 0 THEN vals[g + 1] * 4 + (vals[g + 2] \div 16)
    ELSE IF r = 1 THEN (vals[g + 2] % 16) * 16 + (vals[g + 3] \div 4)
    ELSE (vals[g + 3] % 4) * 64 + vals[g + 4]

\* Four sextets give three bytes; a last quad of two sextets gives one byte,
\* of three gives two.
B64Bytes(vals) ==
    [j \in 1..((Len(vals) \div 4) * 3
               + (IF Len(vals) % 4 = 2 THEN 1 ELSE IF Len(vals) % 4 = 3 THEN 2 ELSE 0))
        |-> B64Byte(vals, 4 * ((j - 1) \div 3), (j - 1) % 3)]

\* done: a pad ended the decoding.
B64Result(vals, done) ==
    [ok |-> done \/ Len(vals) % 4 = 0,
     bytes |-> IF done \/ Len(vals) % 4 = 0 THEN B64Bytes(vals) ELSE <<>>]

B64DecodeTo(data, end) ==
    B64Result(B64Sextets(data, IF end = 0 THEN Len(data) ELSE end - 1), end # 0)

\* base64.b64decode(data): [ok, bytes]; ok = FALSE is binascii.Error.
b64decode(data) == B64DecodeTo(data, B64End(data))

(***************************************************************************)
(* JSON values, as Python's json module builds them.  One record shape for *)
(* every value: kind is "string", "number", "true", "false", "null",       *)
(* "object" or "array"; str holds a string's text or a number's lexeme;    *)
(* members holds an object's (key, value) pairs in insertion order or an   *)
(* array's elements (key empty).                                           *)
(* A number is kept as its lexeme: the numbers of the inputs are integers  *)
(* written the way json.dumps writes them.                                 *)
(***************************************************************************)
JStr(s) == [kind |-> "string", str |-> s, members |-> <<>>]
JNum(lexeme) == [kind |-> "number", str |-> lexeme, members |-> <<>>]
JLit(name) == [kind |-> name, str |-> <<>>, members |-> <<>>]
JObj(ms) == [kind |-> "object", str |-> <<>>, members |-> ms]
JArr(ms) == [kind |-> "array", str |-> <<>>, members |-> ms]

\* dict[key] = val: a key already present keeps its place and takes the new
\* value, a new key is appended.
DictSet(ms, key, val) ==
    IF \E i \in 1..Len(ms) : ms[i].key = key
    THEN [i \in 1..Len(ms) |->
            IF ms[i].key = key THEN [key |-> key, val |-> val] ELSE ms[i]]
    ELSE Append(ms, [key |-> key, val |-> val])

HexDigits == S(<< "0", "1", "2", "3", "4", "5", "6", "7",
                  "8", "9", "a", "b", "c", "d", "e", "f" >>)

Hex4(c) == << HexDigits[((c \div 4096) % 16) + 1], HexDigits[((c \div 256) % 16) + 1],
              HexDigits[((c \div 16) % 16) + 1], HexDigits[(c % 16) + 1] >>

\* json.encoder.py_encode_basestring_ascii, one character (ensure_ascii).
JsonEscapeChar(c) ==
    IF c = Ord("\"") THEN S(<<"\\", "\"">>)
    ELSE IF c = Ord("\\") THEN S(<<"\\", "\\">>)
    ELSE IF c = 10 THEN S(<<"\\", "n">>)
    ELSE IF c = 13 THEN S(<<"\\", "r">>)
    ELSE IF c = 9 THEN S(<<"\\", "t">>)
    ELSE IF c = 8 THEN S(<<"\\", "b">>)
    ELSE IF c = 12 THEN S(<<"\\", "f">>)
    ELSE IF c >= 32 /\ c <= 126 THEN <<c>>
    ELSE IF c < 65536 THEN S(<<"\\", "u">>) \o Hex4(c)
    ELSE S(<<"\\", "u">>) \o Hex4(55296 + ((c - 65536) \div 1024))
         \o S(<<"\\", "u">>) \o Hex4(56320 + ((c - 65536) % 1024))

JsonDumpsString(s) ==
    S(<<"\"">>) \o Concat([i \in 1..Len(s) |-> JsonEscapeChar(s[i])]) \o S(<<"\"">>)

\* json.dumps with the default separators (", " and ": ").
RECURSIVE JsonDumps(_)
RECURSIVE JsonDumpsMember(_, _, _)

\* The i-th member of an object or an array, after its separator.
JsonDumpsMember(kind, m, i) ==
    (IF i > 1 THEN S(<<",", " ">>) ELSE <<>>)
    \o (IF kind = "object" THEN JsonDumpsString(m.key) \o S(<<":", " ">>) ELSE <<>>)
    \o JsonDumps(m.val)

JsonDumps(v) ==
    IF v.kind = "string" THEN JsonDumpsString(v.str)
    ELSE IF v.kind = "number" THEN v.str
    ELSE IF v.kind = "true" THEN S(<<"t", "r", "u", "e">>)
    ELSE IF v.kind = "false" THEN S(<<"f", "a", "l", "s", "e">>)
    ELSE IF v.kind = "null" THEN S(<<"n", "u", "l", "l">>)
    ELSE S(<<IF v.kind = "object" THEN "{" ELSE "[">>)
         \o Concat([i \in 1..Len(v.members) |->
                        JsonDumpsMember(v.kind, v.members[i], i)])
         \o S(<<IF v.kind = "object" THEN "}" ELSE "]">>)

(***************************************************************************)
(* json.loads: json.decoder.JSONDecoder.decode with json.scanner's         *)
(* scan_once, JSONObject, JSONArray and py_scanstring (strict).  Every     *)
(* scanner returns [ok, val, pos]: pos is the index after the value;       *)
(* ok = FALSE is JSONDecodeError.                                          *)
(***************************************************************************)
JFail == [ok |-> FALSE, val |-> JLit("null"), pos |-> 0]
JOk(v, p) == [ok |-> TRUE, val |-> v, pos |-> p]

IsWs(c) == c = 32 \/ c = 9 \/ c = 10 \/ c = 13
IsDigit(c) == c >= 48 /\ c <= 57

RECURSIVE SkipWs(_, _)
SkipWs(s, i) == IF IsWs(At(s, i)) THEN SkipWs(s, i + 1) ELSE i

HasPrefix(s, i, lit) ==
    /\ i + Len(lit) - 1 <= Len(s)
    /\ \A k \in 1..Len(lit) : s[i + k - 1] = lit[k]

HexVal(c) ==
    IF IsDigit(c) THEN c - 48
    ELSE IF c >= 97 /\ c <= 102 THEN c - 87
    ELSE IF c >= 65 /\ c <= 70 THEN c - 55
    ELSE -1

\* _decode_uXXXX: the value of the four hex digits at s[i..i+3], -1 if they
\* are not four hex digits.
DecodeU(s, i) ==
    IF i + 3 <= Len(s) /\ \A k \in 0..3 : HexVal(s[i + k]) >= 0
    THEN HexVal(s[i]) * 4096 + HexVal(s[i + 1]) * 256
         + HexVal(s[i + 2]) * 16 + HexVal(s[i + 3])
    ELSE -1

\* BACKSLASH: the character of a one-letter escape, -1 for a letter that is
\* no escape.
UnescapeChar(c) ==
    IF c = Ord("\"") THEN 34 ELSE IF c = Ord("\\") THEN 92
    ELSE IF c = Ord("/") THEN 47 ELSE IF c = Ord("b") THEN 8
    ELSE IF c = Ord("f") THEN 12 ELSE IF c = Ord("n") THEN 10
    ELSE IF c = Ord("r") THEN 13 ELSE IF c = Ord("t") THEN 9
    ELSE -1

\* STRINGCHUNK: the index of the first quote, backslash or control character
\* at or after s[i], 0 when there is none (an unterminated string).
ChunkEnd(s, i) ==
    MinOf({j \in i..Len(s) : s[j] = Ord("\"") \/ s[j] = Ord("\\") \/ s[j] < 32})

\* py_scanstring (strict) from s[i], the character after the opening quote:
\* chunk by chunk, each ended by the closing quote or by an escape.
RECURSIVE ScanString(_, _, _)
RECURSIVE ScanChunk(_, _, _, _)
RECURSIVE ScanEscape(_, _, _, _)
RECURSIVE ScanSimpleEscape(_, _, _, _)
RECURSIVE ScanUEscape(_, _, _, _, _)

\* A one-letter escape at s[j], standing for the character c.
ScanSimpleEscape(s, j, acc, c) ==
    IF c = -1 THEN JFail ELSE ScanString(s, j + 2, Append(acc, c))

\* \uXXXX at s[j] of value u; u2 is the value of a \uXXXX that follows it,
\* -1 when none does: a high and a low surrogate make one character.
ScanUEscape(s, j, acc, u, u2) ==
    IF u = -1 THEN JFail
    ELSE IF u >= 55296 /\ u <= 56319 /\ u2 >= 56320 /\ u2 <= 57343
         THEN ScanString(s, j + 12,
                         Append(acc, 65536 + (u - 55296) * 1024 + (u2 - 56320)))
    ELSE ScanString(s, j + 6, Append(acc, u))

\* The backslash at s[j] followed by the character e.
ScanEscape(s, j, acc, e) ==
    IF e = -1 THEN JFail
    ELSE IF e # Ord("u") THEN ScanSimpleEscape(s, j, acc, UnescapeChar(e))
    ELSE ScanUEscape(s, j, acc, DecodeU(s, j + 2),
                     IF HasPrefix(s, j + 6, S(<<"\\", "u">>))
                     THEN DecodeU(s, j + 8) ELSE -1)

\* The chunk s[i..j-1] and the character s[j] that ends it.
ScanChunk(s, i, acc, j) ==
    IF j = 0 THEN JFail
    ELSE IF s[j] = Ord("\"") THEN JOk(JStr(acc \o SubSeq(s, i, j - 1)), j + 1)
    ELSE IF s[j] < 32 THEN JFail
    ELSE ScanEscape(s, j, acc \o SubSeq(s, i, j - 1), At(s, j + 1))

ScanString(s, i, acc) == ScanChunk(s, i, acc, ChunkEnd(s, i))

RECURSIVE SkipDigits(_, _)
SkipDigits(s, i) == IF IsDigit(At(s, i)) THEN SkipDigits(s, i + 1) ELSE i

\* NUMBER_RE, an integer with an optional fraction and exponent, at s[i]; each
\* part gives the index after it, 0 when the number does not match.
NumberInt(s, j) ==
    IF At(s, j) = Ord("0") THEN j + 1
    ELSE IF IsDigit(At(s, j)) THEN SkipDigits(s, j)
    ELSE 0

NumberFrac(s, k) ==
    IF k # 0 /\ At(s, k) = Ord(".") /\ IsDigit(At(s, k + 1))
    THEN SkipDigits(s, k + 1)
    ELSE k

NumberExpDigits(s, f, x) == IF IsDigit(At(s, x)) THEN SkipDigits(s, x) ELSE f

NumberExp(s, f) ==
    IF f # 0 /\ At(s, f) \in {Ord("e"), Ord("E")}
    THEN NumberExpDigits(s, f,
            IF At(s, f + 1) \in {Ord("-"), Ord("+")} THEN f + 2 ELSE f + 1)
    ELSE f

NumberEnd(s, i) ==
    NumberExp(s, NumberFrac(s, NumberInt(s, IF At(s, i) = Ord("-") THEN i + 1 ELSE i)))

RECURSIVE ScanOnce(_, _)
RECURSIVE ScanValue(_, _, _, _)
RECURSIVE ScanObject(_, _, _)
RECURSIVE ScanObjectOpen(_, _)
RECURSIVE ScanObjectKey(_, _, _)
RECURSIVE ScanObjectColon(_, _, _, _)
RECURSIVE ScanObjectValue(_, _, _, _)
RECURSIVE ScanObjectNext(_, _, _)
RECURSIVE ScanArray(_, _, _)
RECURSIVE ScanArrayOpen(_, _)
RECURSIVE ScanArrayValue(_, _, _)
RECURSIVE ScanArrayNext(_, _, _)

\* JSONObject's loop: s[i] is to be the opening quote of the next key, ms
\* holds the members read so far.
ScanObject(s, i, ms) ==
    IF At(s, i) # Ord("\"") THEN JFail
    ELSE ScanObjectKey(s, ms, ScanString(s, i + 1, <<>>))

ScanObjectKey(s, ms, key) ==
    IF ~key.ok THEN JFail ELSE ScanObjectColon(s, ms, key.val.str, SkipWs(s, key.pos))

\* s[c] is to be the colon after the key.
ScanObjectColon(s, ms, key, c) ==
    IF At(s, c) # Ord(":") THEN JFail
    ELSE ScanObjectValue(s, ms, key, ScanOnce(s, SkipWs(s, c + 1)))

ScanObjectValue(s, ms, key, val) ==
    IF ~val.ok THEN JFail
    ELSE ScanObjectNext(s, DictSet(ms, key, val.val), SkipWs(s, val.pos))

\* s[e] is to be the closing brace or the comma before the next key.
ScanObjectNext(s, ms, e) ==
    IF At(s, e) = Ord("}") THEN JOk(JObj(ms), e + 1)
    ELSE IF At(s, e) # Ord(",") THEN JFail
    ELSE ScanObject(s, SkipWs(s, e + 1), ms)

\* s[j] is the first character after the opening brace and its whitespace.
ScanObjectOpen(s, j) ==
    IF At(s, j) = Ord("}") THEN JOk(JObj(<<>>), j + 1) ELSE ScanObject(s, j, <<>>)

\* JSONArray's loop: s[i] starts the next element.
ScanArray(s, i, ms) == ScanArrayValue(s, ms, ScanOnce(s, i))

ScanArrayValue(s, ms, val) ==
    IF ~val.ok THEN JFail
    ELSE ScanArrayNext(s, Append(ms, [key |-> <<>>, val |-> val.val]),
                       SkipWs(s, val.pos))

ScanArrayNext(s, ms, e) ==
    IF At(s, e) = Ord("]") THEN JOk(JArr(ms), e + 1)
    ELSE IF At(s, e) # Ord(",") THEN JFail
    ELSE ScanArray(s, SkipWs(s, e + 1), ms)

ScanArrayOpen(s, j) ==
    IF At(s, j) = Ord("]") THEN JOk(JArr(<<>>), j + 1) ELSE ScanArray(s, j, <<>>)

\* scan_once at s[i]: c is s[i], numEnd the end of a number matched there.
ScanValue(s, i, c, numEnd) ==
    IF c = -1 THEN JFail
    ELSE IF c = Ord("\"") THEN ScanString(s, i + 1, <<>>)
    ELSE IF c = Ord("{") THEN ScanObjectOpen(s, SkipWs(s, i + 1))
    ELSE IF c = Ord("[") THEN ScanArrayOpen(s, SkipWs(s, i + 1))
    ELSE IF HasPrefix(s, i, S(<<"n", "u", "l", "l">>)) THEN JOk(JLit("null"), i + 4)
    ELSE IF HasPrefix(s, i, S(<<"t", "r", "u", "e">>)) THEN JOk(JLit("true"), i + 4)
    ELSE IF HasPrefix(s, i, S(<<"f", "a", "l", "s", "e">>))
         THEN JOk(JLit("false"), i + 5)
    ELSE IF numEnd # 0 THEN JOk(JNum(SubSeq(s, i, numEnd - 1)), numEnd)
    ELSE IF HasPrefix(s, i, S(<<"N", "a", "N">>))
         THEN JOk(JNum(SubSeq(s, i, i + 3 - 1)), i + 3)
    ELSE IF HasPrefix(s, i, S(<<"I", "n", "f", "i", "n", "i", "t", "y">>))
         THEN JOk(JNum(SubSeq(s, i, i + 8 - 1)), i + 8)
    ELSE IF HasPrefix(s, i, S(<<"-", "I", "n", "f", "i", "n", "i", "t", "y">>))
         THEN JOk(JNum(SubSeq(s, i, i + 9 - 1)), i + 9)
    ELSE JFail

ScanOnce(s, i) == ScanValue(s, i, At(s, i), NumberEnd(s, i))

\* Anything but whitespace after the value is "Extra data".
JsonLoadsEnd(s, r) == IF r.ok /\ SkipWs(s, r.pos) = Len(s) + 1 THEN r ELSE JFail

\* json.loads(s)
JsonLoads(s) == JsonLoadsEnd(s, ScanOnce(s, SkipWs(s, 1)))

(***************************************************************************)
(* The cursor codec of get_items_v1.                                       *)
(***************************************************************************)
\* The resume key DynamoDB reports for the table "Items", whose key schema
\* is the string attribute id: the resource layer hands it over as the
\* dict {"id": <id>}.
ResumeKey(id) == JObj(<< [key |-> S(<<"i", "d">>), val |-> JStr(id)] >>)

IsResumeKey(v) ==
    /\ v.kind = "object"
    /\ Len(v.members) = 1
    /\ v.members[1].key = S(<<"i", "d">>)
    /\ v.members[1].val.kind = "string"
    /\ v.members[1].val.str # <<>>

Requote(s) == [i \in 1..Len(s) |-> IF s[i] = Ord("\"") THEN Ord("'") ELSE s[i]]

\* A cursor of str(key), which quotes with the single quote.
EncodeCursorRepr(key) ==
    Utf8Decode(b64encode(Utf8Encode(Requote(JsonDumps(key))))).str

IsNoPad(c) == c # B64Pad

\* A cursor stripped of its padding.
EncodeCursorNoPad(key) ==
    SelectSeq(Utf8Decode(b64encode(Utf8Encode(JsonDumps(key)))).str, IsNoPad)

\* base64.b64encode(json.dumps(key).encode()).decode()
EncodeCursor(key) == Utf8Decode(b64encode(Utf8Encode(JsonDumps(key)))).str

\* The three steps of json.loads(base64.b64decode(cursor.encode()).decode()),
\* each on the result of the one before: ok = FALSE when one of them raises.
DecodeText(text) == IF text.ok THEN JsonLoads(text.str) ELSE JFail

DecodeBytes(raw) == IF raw.ok THEN DecodeText(Utf8Decode(raw.bytes)) ELSE JFail

DecodeResult(json) == [ok |-> json.ok, key |-> json.val]

DecodeCursor(cursor) == DecodeResult(DecodeBytes(b64decode(Utf8Encode(cursor))))

(***************************************************************************)
(* State.                                                                  *)
(*   table    the table "Items"                                            *)
(*   resp     the request being answered and its response; op = "none"     *)
(*            between requests, before is the table as the request found   *)
(*            it                                                           *)
(*   session  a client that pages through GET /v1/items, handing each      *)
(*            next_cursor back; with several clients, one such session per *)
(*            client (clients) and what one scan of the table answers      *)
(*            (scan)                                                       *)
(*   codec    a resume key or a token taken through the cursor codec;      *)
(*            emitted says that the token comes from EncodeCursor          *)
(***************************************************************************)
VARIABLES table, resp, session, codec

(***************************************************************************)
(* Bounds of the model.                                                    *)
(***************************************************************************)
\* The ids of the paged tables are the first NumIds letters "a", "b", ...
NumIds == 5

\* The ids the CRUD requests address are the first NumCrudIds letters.
NumCrudIds == 3

\* The ids of the codec specification are the strings of 1..MaxKeyLen
\* characters of KeyChars.
MaxKeyLen == 2

(***************************************************************************)
(* The table "Items": a function from the ids present to their items.  An  *)
(* item is a function from field names to strings; a stored item always    *)
(* has "id", the table's key attribute.                                    *)
(***************************************************************************)
IdName(i) == <<Ord("a") + i - 1>>

KeySpace == {IdName(i) : i \in 1..NumIds}

CrudIds == {IdName(i) : i \in 1..NumCrudIds}

Names == {S(<<"x">>), S(<<"y">>)}

\* An optional value is <<>> (absent, None) or <<v>>.
Opt(set) == {<<>>} \cup {<<v>> : v \in set}

MkItem(idOpt, nameOpt) ==
    [f \in (IF idOpt = <<>> THEN {} ELSE {"id"})
           \cup (IF nameOpt = <<>> THEN {} ELSE {"name"}) |->
        IF f = "id" THEN idOpt[1] ELSE nameOpt[1]]

\* The JSON bodies a client sends to POST and PUT.
BodyInputs == {MkItem(i, n) : i \in Opt(CrudIds), n \in Opt(Names)}

EmptyTable == [k \in {} |-> MkItem(<<>>, <<>>)]

\* DynamoDB scans a table in the order of its keys' hashes: a fixed order of
\* the key space, here the order of the ids' first letters.
ScanPos(id) == id[1] - Ord("a") + 1

\* The keys the scan has still to read after the place "after".
ScanKeys(t, after) == {k \in DOMAIN t : ScanPos(k) > after}

ScanRank(keys, k) == Cardinality({x \in keys : ScanPos(x) <= ScanPos(k)})

ScanSorted(t, keys) ==
    [i \in 1..Cardinality(keys) |-> t[CHOOSE k \in keys : ScanRank(keys, k) = i]]

\* The items after the place "after", in scan order.
ScanOrder(t, after) == ScanSorted(t, ScanKeys(t, after))

\* A store call's outcome: ok = FALSE is botocore's ClientError (or the
\* parameter validation error of a malformed call), response is the dict
\* boto3 returns.
StoreFailed == [ok |-> FALSE, response |-> <<>>]
StoreOk(response) == [ok |-> TRUE, response |-> response]

\* The store's answer to a call: fail is a failure of the store itself
\* (throttling, no access, no network).
StoreAnswer(fail, r) == IF fail THEN StoreFailed ELSE r

\* table.get_item(Key={"id": id})
TableGetItem(t, id) ==
    StoreOk(IF id \in DOMAIN t THEN [Item |-> t[id]] ELSE <<>>)

\* table.put_item(Item=item): an item without the key attribute is rejected,
\* any other is stored under its id in place of what was there.
TablePutItem(item) == IF "id" \in DOMAIN item THEN StoreOk(<<>>) ELSE StoreFailed

TableAfterPut(t, item) ==
    [k \in DOMAIN t \cup {item["id"]} |-> IF k = item["id"] THEN item ELSE t[k]]

\* table.delete_item(Key={"id": id}): succeeds whether the item is there or
\* not.
TableDeleteItem(id) == StoreOk(<<>>)

TableAfterDelete(t, id) == [k \in DOMAIN t \ {id} |-> t[k]]

(***************************************************************************)
(* table.scan with the arguments kwargs, which has "Limit" and             *)
(* "ExclusiveStartKey" when the caller passed them.  The scan starts after *)
(* the start key's place in the scan order and stops at Limit items, at    *)
(* the items that fit the store's 1 MB answer (cap of them, the store's    *)
(* choice) or at the end of the table.  LastEvaluatedKey is in the answer  *)
(* when the scan stopped before the end; when it stopped on Limit exactly  *)
(* at the end, the store may report the key or not (keyAtEnd).  A start    *)
(* key that is not a key of the table fails the call.                      *)
(***************************************************************************)
ScanStart(kwargs) ==
    IF "ExclusiveStartKey" \in DOMAIN kwargs
    THEN ScanPos(kwargs["ExclusiveStartKey"].members[1].val.str)
    ELSE 0

ScanCount(kwargs, cap) ==
    IF "Limit" \in DOMAIN kwargs THEN Min(kwargs["Limit"], cap) ELSE cap

\* The answer that holds the first k items of rest.
ScanAnswer(rest, k, byLimit, keyAtEnd) ==
    StoreOk(IF k < Len(rest) \/ (k > 0 /\ byLimit /\ keyAtEnd)
            THEN [Items |-> SubSeq(rest, 1, k),
                  LastEvaluatedKey |-> ResumeKey(rest[k]["id"])]
            ELSE [Items |-> SubSeq(rest, 1, k)])

ScanTake(rest, k, kwargs, keyAtEnd) ==
    ScanAnswer(rest, k, "Limit" \in DOMAIN kwargs /\ k = kwargs["Limit"], keyAtEnd)

TableScan(t, kwargs, cap, keyAtEnd) ==
    IF "ExclusiveStartKey" \in DOMAIN kwargs
       /\ ~IsResumeKey(kwargs["ExclusiveStartKey"])
    THEN StoreFailed
    ELSE IF "Limit" \in DOMAIN kwargs /\ kwargs["Limit"] < 1 THEN StoreFailed
    ELSE ScanTake(ScanOrder(t, ScanStart(kwargs)),
                  Min(ScanCount(kwargs, cap), Len(ScanOrder(t, ScanStart(kwargs)))),
                  kwargs, keyAtEnd)

(***************************************************************************)
(* The handlers.  A handler's try block either returns or raises; what it  *)
(* gives is a record: raised says which, exc names the exception class,    *)
(* status is the HTTP status (of the HTTPException when one was raised),   *)
(* table is the table afterwards and store lists the store calls made.     *)
(* Each handler is its try block, given the store's answer, under its      *)
(* except clauses.                                                         *)
(***************************************************************************)
Return(status, body, t, calls) ==
    [raised |-> FALSE, exc |-> "", status |-> status, body |-> body,
     table |-> t, store |-> calls]

Raise(exc, status, t, calls) ==
    [raised |-> TRUE, exc |-> exc, status |-> status, body |-> <<>>,
     table |-> t, store |-> calls]

StoreCall(op, args, result) == [op |-> op, args |-> args, result |-> result]

\* response.get(name, default)
DictGet(d, name, default) == IF name \in DOMAIN d THEN d[name] ELSE default

\* Except clauses that answer an error with an empty success.
CatchAllEmpty(o) ==
    IF o.raised
    THEN [o EXCEPT !.raised = FALSE, !.exc = "", !.status = 200, !.body = <<>>]
    ELSE o

\* "except ClientError / except Exception", both raising HTTPException(500):
\* every exception the try block raises, an HTTPException included, leaves
\* as a 500.
CatchAll(o) ==
    IF o.raised THEN [o EXCEPT !.exc = "HTTPException", !.status = 500] ELSE o

\* The catch-all without the clause that lets an HTTPException through.
CatchAllHttpToo(o) ==
    IF o.raised THEN [o EXCEPT !.exc = "HTTPException", !.status = 500] ELSE o

\* "except ClientError / except HTTPException: raise / except Exception":
\* an HTTPException of the try block passes through unchanged.
CatchAllButHttp(o) ==
    IF o.raised /\ o.exc # "HTTPException"
    THEN [o EXCEPT !.exc = "HTTPException", !.status = 500]
    ELSE o

\* GET /items
get_items_try(t, response) ==
    IF ~response.ok
    THEN Raise("ClientError", 500, t, <<StoreCall("scan", <<>>, response)>>)
    ELSE Return(200, DictGet(response.response, "Items", <<>>), t,
                <<StoreCall("scan", <<>>, response)>>)

get_items(t, fail, cap) ==
    CatchAll(get_items_try(t, StoreAnswer(fail, TableScan(t, <<>>, cap, FALSE))))

\* GET /items/{item_id}
get_item_try(t, item_id, response) ==
    IF ~response.ok
    THEN Raise("ClientError", 500, t, <<StoreCall("get_item", item_id, response)>>)
    ELSE IF "Item" \notin DOMAIN response.response
    THEN Raise("HTTPException", 404, t, <<StoreCall("get_item", item_id, response)>>)
    ELSE Return(200, response.response["Item"], t,
                <<StoreCall("get_item", item_id, response)>>)

get_item(t, item_id, fail) ==
    CatchAllButHttp(get_item_try(t, item_id, StoreAnswer(fail, TableGetItem(t, item_id))))

\* GET /items/{item_id}/{property_name}
get_item_property_try(t, item_id, property_name, response) ==
    IF ~response.ok
    THEN Raise("ClientError", 500, t, <<StoreCall("get_item", item_id, response)>>)
    ELSE IF "Item" \notin DOMAIN response.response
    THEN Raise("HTTPException", 404, t, <<StoreCall("get_item", item_id, response)>>)
    ELSE IF property_name \notin DOMAIN response.response["Item"]
    THEN Raise("HTTPException", 404, t, <<StoreCall("get_item", item_id, response)>>)
    ELSE Return(200,
                [p \in {property_name} |-> response.response["Item"][property_name]],
                t, <<StoreCall("get_item", item_id, response)>>)

get_item_property(t, item_id, property_name, fail) ==
    CatchAllButHttp(get_item_property_try(t, item_id, property_name,
                        StoreAnswer(fail, TableGetItem(t, item_id))))

\* POST /items
create_item_try(t, item, response) ==
    IF ~response.ok
    THEN Raise("ClientError", 500, t, <<StoreCall("put_item", item, response)>>)
    ELSE Return(201, item, TableAfterPut(t, item),
                <<StoreCall("put_item", item, response)>>)

create_item(t, item, fail) ==
    CatchAll(create_item_try(t, item, StoreAnswer(fail, TablePutItem(item))))

\* An assignment that keeps the id the body brought.
SetIdDefault(item, item_id) ==
    [f \in DOMAIN item \cup {"id"} |-> IF f \in DOMAIN item THEN item[f] ELSE item_id]

\* item["id"] = item_id
SetId(item, item_id) ==
    [f \in DOMAIN item \cup {"id"} |-> IF f = "id" THEN item_id ELSE item[f]]

\* An update that looks the item up first and refuses one that is not there.
update_item_existing(t, item_id, item, response) ==
    IF ~response.ok
    THEN Raise("ClientError", 500, t, <<StoreCall("put_item", item, response)>>)
    ELSE IF item_id \notin DOMAIN t
    THEN Raise("HTTPException", 404, t,
               <<StoreCall("get_item", item_id, TableGetItem(t, item_id))>>)
    ELSE Return(200, item, TableAfterPut(t, item),
                <<StoreCall("put_item", item, response)>>)

\* PUT /items/{item_id}: item is the body after the assignment of its id.
update_item_try(t, item_id, item, response) ==
    IF ~response.ok
    THEN Raise("ClientError", 500, t, <<StoreCall("put_item", item, response)>>)
    ELSE Return(200, item, TableAfterPut(t, item),
                <<StoreCall("put_item", item, response)>>)

update_item(t, item_id, item, fail) ==
    CatchAll(update_item_try(t, item_id, SetId(item, item_id),
                             StoreAnswer(fail, TablePutItem(SetId(item, item_id)))))

\* DELETE /items/{item_id}
delete_item_try(t, item_id, response) ==
    IF ~response.ok
    THEN Raise("ClientError", 500, t, <<StoreCall("delete_item", item_id, response)>>)
    ELSE Return(204, <<>>, TableAfterDelete(t, item_id),
                <<StoreCall("delete_item", item_id, response)>>)

delete_item(t, item_id, fail) ==
    CatchAll(delete_item_try(t, item_id, StoreAnswer(fail, TableDeleteItem(item_id))))

(***************************************************************************)
(* GET /v1/items                                                           *)
(***************************************************************************)
DefaultLimit == 10
MinLimit == 1
MaxLimit == 100

\* A validation that lets every limit through.
QueryLimitUnchecked(limitOpt) ==
    [ok |-> TRUE, limit |-> IF limitOpt = <<>> THEN DefaultLimit ELSE limitOpt[1]]

QueryLimitOf(limit) == [ok |-> limit >= MinLimit /\ limit <= MaxLimit, limit |-> limit]

\* limit: int = Query(10, ge=1, le=100): the framework's validation of the
\* query parameter, before the handler runs.  limitOpt is <<>> when the
\* request has no limit.
QueryLimit(limitOpt) ==
    QueryLimitOf(IF limitOpt = <<>> THEN DefaultLimit ELSE limitOpt[1])

\* "if cursor:": None and the empty string are no cursor.
HasCursor(cursorOpt) == cursorOpt # <<>> /\ cursorOpt[1] # <<>>

\* A scan that never resumes.
ScanKwargsNoStart(limit, last_evaluated_key) == [Limit |-> limit]

\* A server that keeps the position of the scan it answered last and goes
\* on from there.
ScanKwargsShared(limit, last_evaluated_key) ==
    [Limit |-> limit,
     ExclusiveStartKey |->
         IF /\ resp.status = 200
            /\ "LastEvaluatedKey" \in DOMAIN resp.store[1].result.response
         THEN resp.store[1].result.response["LastEvaluatedKey"]
         ELSE last_evaluated_key]

\* scan_kwargs once the cursor's key is in it.
ScanKwargs(limit, last_evaluated_key) ==
    [Limit |-> limit, ExclusiveStartKey |-> last_evaluated_key]

\* A cursor made from the last item of the page, whenever there is one.
NextCursorByItems(response) ==
    IF Len(DictGet(response, "Items", <<>>)) > 0
    THEN <<EncodeCursor(ResumeKey(response["Items"][Len(response["Items"])]["id"]))>>
    ELSE <<>>

\* next_cursor of the response: the encoded LastEvaluatedKey when the scan's
\* answer has one, None (<<>>) otherwise.
NextCursor(response) ==
    IF "LastEvaluatedKey" \in DOMAIN response
    THEN <<EncodeCursor(response["LastEvaluatedKey"])>>
    ELSE <<>>

\* A page that hands the scan's items out last first.
get_items_v1_page_reversed(t, scan_kwargs, response) ==
    IF ~response.ok
    THEN Raise("ClientError", 500, t, <<StoreCall("scan", scan_kwargs, response)>>)
    ELSE Return(200,
                [items |-> [i \in 1..Len(response.response["Items"]) |->
                               response.response["Items"]
                                   [Len(response.response["Items"]) + 1 - i]],
                 next_cursor |-> NextCursor(response.response)],
                t, <<StoreCall("scan", scan_kwargs, response)>>)

\* The rest of the try block, once the store has answered the scan.
get_items_v1_page(t, scan_kwargs, response) ==
    IF ~response.ok
    THEN Raise("ClientError", 500, t, <<StoreCall("scan", scan_kwargs, response)>>)
    ELSE Return(200,
                [items |-> DictGet(response.response, "Items", <<>>),
                 next_cursor |-> NextCursor(response.response)],
                t, <<StoreCall("scan", scan_kwargs, response)>>)

get_items_v1_scan(t, scan_kwargs, fail, cap, keyAtEnd) ==
    get_items_v1_page(t, scan_kwargs,
                      StoreAnswer(fail, TableScan(t, scan_kwargs, cap, keyAtEnd)))

\* The inner try block: a cursor that does not decode raises
\* HTTPException(400), inside the outer try block.
get_items_v1_cursor(t, limit, decoded, fail, cap, keyAtEnd) ==
    IF ~decoded.ok THEN Raise("HTTPException", 400, t, <<>>)
    ELSE get_items_v1_scan(t, ScanKwargs(limit, decoded.key), fail, cap, keyAtEnd)

\* The outer try block.
get_items_v1_try(t, limit, cursorOpt, fail, cap, keyAtEnd) ==
    IF HasCursor(cursorOpt)
    THEN get_items_v1_cursor(t, limit, DecodeCursor(cursorOpt[1]), fail, cap, keyAtEnd)
    ELSE get_items_v1_scan(t, [Limit |-> limit], fail, cap, keyAtEnd)

get_items_v1_valid(t, q, cursorOpt, fail, cap, keyAtEnd) ==
    IF ~q.ok THEN Raise("RequestValidationError", 422, t, <<>>)
    ELSE CatchAll(get_items_v1_try(t, q.limit, cursorOpt, fail, cap, keyAtEnd))

\* The request as the framework and the handler answer it: 422 for a limit
\* out of range, otherwise the try block under the handler's except clauses.
get_items_v1(t, limitOpt, cursorOpt, fail, cap, keyAtEnd) ==
    get_items_v1_valid(t, QueryLimit(limitOpt), cursorOpt, fail, cap, keyAtEnd)

vars == <<table, resp, session, codec>>

NoResp == [op |-> "none", req |-> <<>>, status |-> 0, body |-> <<>>, store |-> <<>>,
           before |-> EmptyTable]

MkResp(op, req, o) ==
    [op |-> op, req |-> req, status |-> o.status, body |-> o.body, store |-> o.store,
     before |-> table]

NoSession == [state |-> "idle", limit |-> 0, cursor |-> <<>>, pages |-> <<>>]

NoCodec == [step |-> "none", key |-> <<>>, token |-> <<>>, emitted |-> FALSE,
            decoded |-> <<>>, reencoded |-> <<>>]

\* The number of items the store fits into one scan answer (1 MB): at least
\* two, more than any table holds when the whole table fits.
ScanCaps == 2..(NumIds + 1)

PropertyInputs == {"id", "name", "description"}

\* The tables of the paging specifications: any set of ids, items alike.
IdTables ==
    {[k \in ids |-> MkItem(<<k>>, <<S(<<"x">>)>>)] : ids \in SUBSET KeySpace}

(***************************************************************************)
(* The requests of the CRUD endpoints.  A request is answered in one step; *)
(* Deliver hands the response out and ends the request.                    *)
(***************************************************************************)
Idle == resp.op = "none"

Answer(op, req, o) ==
    /\ resp' = MkResp(op, req, o)
    /\ table' = o.table
    /\ UNCHANGED <<session, codec>>

GetItems ==
    /\ Idle
    /\ \E fail \in BOOLEAN, cap \in ScanCaps :
          Answer("get_items", <<>>, get_items(table, fail, cap))

GetItem ==
    /\ Idle
    /\ \E item_id \in CrudIds, fail \in BOOLEAN :
          Answer("get_item", [item_id |-> item_id], get_item(table, item_id, fail))

GetItemProperty ==
    /\ Idle
    /\ \E item_id \in CrudIds, property_name \in PropertyInputs, fail \in BOOLEAN :
          Answer("get_item_property",
                 [item_id |-> item_id, property_name |-> property_name],
                 get_item_property(table, item_id, property_name, fail))

CreateItem ==
    /\ Idle
    /\ \E item \in BodyInputs, fail \in BOOLEAN :
          Answer("create_item", [item |-> item], create_item(table, item, fail))

UpdateItem ==
    /\ Idle
    /\ \E item_id \in CrudIds, item \in BodyInputs, fail \in BOOLEAN :
          Answer("update_item", [item_id |-> item_id, item |-> item],
                 update_item(table, item_id, item, fail))

DeleteItem ==
    /\ Idle
    /\ \E item_id \in CrudIds, fail \in BOOLEAN :
          Answer("delete_item", [item_id |-> item_id],
                 delete_item(table, item_id, fail))

Deliver ==
    /\ ~Idle
    /\ resp' = NoResp
    /\ UNCHANGED <<table, session, codec>>

InitCrud ==
    /\ table = EmptyTable
    /\ resp = NoResp
    /\ session = NoSession
    /\ codec = NoCodec

NextCrud ==
    \/ GetItems
    \/ GetItem
    \/ GetItemProperty
    \/ CreateItem
    \/ UpdateItem
    \/ DeleteItem
    \/ Deliver

SpecCrud == InitCrud /\ [][NextCrud]_vars

(***************************************************************************)
(* GET /v1/items with any limit and any cursor a client may send.          *)
(***************************************************************************)
LimitInputs == Opt({-1, 0, 1, 2, 3, MaxLimit, MaxLimit + 1})

\* The cursors the server emits: one for each resume key.
EmittedCursors == {EncodeCursor(ResumeKey(k)) : k \in KeySpace}

\* Cursors no resume key can be read from.
MalformedCursors ==
    {
      \* not base64 at all
      S(<<"n", "o", "t", "-", "v", "a", "l", "i", "d", "-", "b", "a", "s", "e", "6", "4", "!", "!">>),
      \* a cursor that lost its padding
      S(<<"e", "y", "J", "p", "Z", "C", "I", "6", "I", "C", "J", "h", "I", "n", "0">>),
      \* a cursor cut short: {"id": "a
      S(<<"e", "y", "J", "p", "Z", "C", "I", "6", "I", "C", "J", "h">>),
      \* base64 of hello: not JSON
      S(<<"a", "G", "V", "s", "b", "G", "8", "=">>),
      \* base64 of the byte FF: not UTF-8
      S(<<"/", "w", "=", "=">>),
      \* base64 of [1]: JSON, not a key
      S(<<"W", "z", "F", "d">>),
      \* base64 of null
      S(<<"b", "n", "V", "s", "b", "A", "=", "=">>),
      \* base64 of {"x": "a"}: a key of the wrong attribute
      S(<<"e", "y", "J", "4", "I", "j", "o", "g", "I", "m", "E", "i", "f", "Q", "=", "=">>),
      \* base64 of {"id": 1}: a key of the wrong type
      S(<<"e", "y", "J", "p", "Z", "C", "I", "6", "I", "D", "F", "9">>)
    }

\* Cursors the server never emits but reads as the resume key of "a".
ForeignCursors ==
    {
      \* base64 of {"id":"a"}, without the space json.dumps writes
      S(<<"e", "y", "J", "p", "Z", "C", "I", "6", "I", "m", "E", "i", "f", "Q", "=", "=">>),
      \* a cursor followed by a character outside the alphabet
      S(<<"e", "y", "J", "p", "Z", "C", "I", "6", "I", "C", "J", "h", "I", "n", "0", "=", "!">>)
    }

CursorInputs == Opt({<<>>} \cup EmittedCursors \cup MalformedCursors \cup ForeignCursors)

GetItemsV1 ==
    /\ Idle
    /\ \E limitOpt \in LimitInputs, cursorOpt \in CursorInputs,
          fail \in BOOLEAN, cap \in ScanCaps, keyAtEnd \in BOOLEAN :
          Answer("get_items_v1", [limit |-> limitOpt, cursor |-> cursorOpt],
                 get_items_v1(table, limitOpt, cursorOpt, fail, cap, keyAtEnd))

InitV1 ==
    /\ table \in IdTables
    /\ resp = NoResp
    /\ session = NoSession
    /\ codec = NoCodec

NextV1 ==
    \/ GetItemsV1
    \/ Deliver

SpecV1 == InitV1 /\ [][NextV1]_vars

(***************************************************************************)
(* A client paging through GET /v1/items, as the dashboard does: the first *)
(* request carries no cursor, each further request carries the next_cursor *)
(* of the response before it, and the session is done at the first         *)
(* response without one.  A request that fails leaves the session where it *)
(* was.  Nothing writes the table meanwhile.                               *)
(***************************************************************************)
SessionLimits == {MinLimit, 2, 3, MaxLimit}

PageIds(items) == [i \in 1..Len(items) |-> items[i]["id"]]

\* The session after the response o to a request of limit items.
Turn(limit, o) ==
    IF o.status = 200
    THEN [state  |-> IF o.body.next_cursor = <<>> THEN "done" ELSE "paging",
          limit  |-> limit,
          cursor |-> o.body.next_cursor,
          pages  |-> Append(session.pages, PageIds(o.body.items))]
    ELSE session

Fetch(limit, cursorOpt, o) ==
    /\ resp' = MkResp("get_items_v1", [limit |-> <<limit>>, cursor |-> cursorOpt], o)
    /\ session' = Turn(limit, o)
    /\ UNCHANGED <<table, codec>>

FirstPage ==
    /\ session.state = "idle"
    /\ \E limit \in SessionLimits, fail \in BOOLEAN, cap \in ScanCaps,
          keyAtEnd \in BOOLEAN :
          Fetch(limit, <<>>,
                get_items_v1(table, <<limit>>, <<>>, fail, cap, keyAtEnd))

NextPage ==
    /\ session.state = "paging"
    /\ \E fail \in BOOLEAN, cap \in ScanCaps, keyAtEnd \in BOOLEAN :
          Fetch(session.limit, session.cursor,
                get_items_v1(table, <<session.limit>>, session.cursor,
                             fail, cap, keyAtEnd))

NextPageSpec ==
    \/ FirstPage
    \/ NextPage

SpecPage == InitV1 /\ [][NextPageSpec]_vars

(***************************************************************************)
(* The codec alone: a resume key is encoded, the token decoded and the     *)
(* decoded key encoded again; or a token a client made up is decoded and   *)
(* encoded again.                                                          *)
(***************************************************************************)
\* a, the quote, the backslash, the newline, e acute, the euro sign, a
\* character outside the basic plane, and ">", whose base64 text has a "+".
KeyChars == {Ord("a"), Ord("\""), Ord("\\"), 10, 233, 8364, 128512, Ord(">")}

CodecKeys == KeySpace \cup UNION {[1..n -> KeyChars] : n \in 1..MaxKeyLen}

Encode ==
    /\ codec.step = "key"
    /\ codec' = [codec EXCEPT !.step = "encoded",
                              !.token = EncodeCursor(ResumeKey(codec.key))]
    /\ UNCHANGED <<table, resp, session>>

Decode ==
    /\ codec.step \in {"encoded", "token"}
    /\ codec' = [codec EXCEPT !.step = "decoded",
                              !.decoded = <<DecodeCursor(codec.token)>>]
    /\ UNCHANGED <<table, resp, session>>

Reencode ==
    /\ codec.step = "decoded"
    /\ codec.decoded[1].ok
    /\ codec' = [codec EXCEPT !.step = "reencoded",
                              !.reencoded = EncodeCursor(codec.decoded[1].key)]
    /\ UNCHANGED <<table, resp, session>>

InitCodec ==
    /\ table = EmptyTable
    /\ resp = NoResp
    /\ session = NoSession
    /\ \/ \E k \in CodecKeys :
             codec = [NoCodec EXCEPT !.step = "key", !.key = k, !.emitted = TRUE]
       \/ \E t \in MalformedCursors \cup ForeignCursors :
             codec = [NoCodec EXCEPT !.step = "token", !.token = t]

NextCodec ==
    \/ Encode
    \/ Decode
    \/ Reencode

SpecCodec == InitCodec /\ [][NextCodec]_vars

(***************************************************************************)
(* Every endpoint: the CRUD requests and GET /v1/items on the table they   *)
(* write, with no limit, a limit out of range or the limit 2, and with no  *)
(* cursor, a cursor of the table's ids or a malformed one.                 *)
(***************************************************************************)
GetItemsV1Crud ==
    /\ Idle
    /\ \E limitOpt \in Opt({0, 2}),
          cursorOpt \in Opt({EncodeCursor(ResumeKey(k)) : k \in CrudIds}
                            \cup MalformedCursors),
          fail \in BOOLEAN, cap \in ScanCaps, keyAtEnd \in BOOLEAN :
          Answer("get_items_v1", [limit |-> limitOpt, cursor |-> cursorOpt],
                 get_items_v1(table, limitOpt, cursorOpt, fail, cap, keyAtEnd))

NextApi ==
    \/ NextCrud
    \/ GetItemsV1Crud

SpecApi == InitCrud /\ [][NextApi]_vars

(***************************************************************************)
(* Several clients paging through GET /v1/items at once, their requests    *)
(* interleaved in any order.  Each client keeps its own limit and the      *)
(* next_cursor of its last response; a request carries nothing else of the *)
(* client.  Nothing writes the table, so the sizes of its items, which fix *)
(* how much one scan answers (cap, keyAtEnd), stay as they are at start.   *)
(* The table holds the first n ids.                                        *)
(***************************************************************************)
Clients == {"c1", "c2"}

ClientFetch(c, limit, o) ==
    /\ resp' = MkResp("get_items_v1",
                      [limit |-> <<limit>>, cursor |-> session.clients[c].cursor], o)
    /\ session' =
          IF o.status = 200
          THEN [session EXCEPT !.clients[c] =
                   [state  |-> IF o.body.next_cursor = <<>> THEN "done" ELSE "paging",
                    limit  |-> limit,
                    cursor |-> o.body.next_cursor,
                    pages  |-> Append(@.pages, PageIds(o.body.items))]]
          ELSE session
    /\ UNCHANGED <<table, codec>>

ClientPage(c) ==
    /\ session.clients[c].state # "done"
    /\ \E limit \in (IF session.clients[c].state = "idle"
                     THEN SessionLimits ELSE {session.clients[c].limit}),
          fail \in BOOLEAN :
          ClientFetch(c, limit,
                      get_items_v1(table, <<limit>>, session.clients[c].cursor,
                                   fail, session.scan.cap, session.scan.keyAtEnd))

InitClients ==
    /\ table \in {t \in IdTables : \E n \in 0..NumIds :
                                     DOMAIN t = {IdName(i) : i \in 1..n}}
    /\ resp = NoResp
    /\ \E cap \in ScanCaps, keyAtEnd \in BOOLEAN :
          session = [scan    |-> [cap |-> cap, keyAtEnd |-> keyAtEnd],
                     clients |-> [c \in Clients |-> NoSession]]
    /\ codec = NoCodec

NextClients == \E c \in Clients : ClientPage(c)

SpecClients == InitClients /\ [][NextClients]_vars

(***************************************************************************)
(* The cursor as the handler is given it when a client writes the text     *)
(* raw after "cursor=" in the URL as it is: the framework reads the query  *)
(* string as a form, where "+" stands for a space.  The other characters   *)
(* of a base64 text stand for themselves.                                  *)
(***************************************************************************)
QueryParam(raw) == [i \in 1..Len(raw) |-> IF raw[i] = Ord("+") THEN Ord(" ") ELSE raw[i]]

(***************************************************************************)
(* The dashboard in V1 mode.  Every rerun of the script (a change of the   *)
(* limit, Load More, a reload) asks GET /v1/items with the limit of the    *)
(* sidebar and the cursor of the session, keeps the response's next_cursor *)
(* as the session's cursor and then shows the page as a table of the       *)
(* columns id, name and description.  The session's state is what the last *)
(* rerun ended with, its pages are the pages shown since the last request  *)
(* without a cursor.  The table holds the first n ids; an item has a name, *)
(* and a description or none.  One scan answers two items or all.          *)
(***************************************************************************)
\* "if items:", pd.DataFrame(items)[["id", "name", "description"]]: a column
\* exists when some item of the page has the field; a missing column raises
\* KeyError, which the script's last except clause reports.
Display(items) ==
    IF items = <<>> THEN "empty"
    ELSE IF \A col \in {"id", "name", "description"} :
               \E i \in 1..Len(items) : col \in DOMAIN items[i]
         THEN "shown"
         ELSE "error"

\* The session after the response o; shown is what Display makes of its page.
DashTurn(limit, o, shown) ==
    [state  |-> shown,
     limit  |-> limit,
     cursor |-> o.body.next_cursor,
     pages  |-> IF shown = "shown"
                THEN Append(IF session.cursor = <<>> THEN <<>> ELSE session.pages,
                            PageIds(o.body.items))
                ELSE IF session.cursor = <<>> THEN <<>> ELSE session.pages]

DashFetch(limit, o) ==
    /\ resp' = MkResp("get_items_v1",
                      [limit |-> <<limit>>, cursor |-> session.cursor], o)
    /\ session' = IF o.status = 200
                  THEN DashTurn(limit, o, Display(o.body.items))
                  ELSE [session EXCEPT !.state = "failed", !.limit = limit]
    /\ UNCHANGED <<table, codec>>

Rerun ==
    \E limit \in SessionLimits, fail \in BOOLEAN, cap \in {2, NumIds + 1},
       keyAtEnd \in BOOLEAN :
       DashFetch(limit, get_items_v1(table, <<limit>>, session.cursor,
                                     fail, cap, keyAtEnd))

InitDash ==
    /\ \E n \in 0..NumIds : \E bare \in SUBSET {IdName(i) : i \in 1..n} :
          table = [k \in {IdName(i) : i \in 1..n} |->
                      IF k \in bare
                      THEN MkItem(<<k>>, <<S(<<"x">>)>>)
                      ELSE [id |-> k, name |-> S(<<"x">>),
                            description |-> S(<<"y">>)]]
    /\ resp = NoResp
    /\ session = NoSession
    /\ codec = NoCodec

SpecDash == InitDash /\ [][Rerun]_vars

(***************************************************************************)
(* Properties.                                                             *)
(***************************************************************************)
IsV1 == resp.op = "get_items_v1"

\* The answer of the store to the request's first store call.
StoreResult == resp.store[1].result

IsClientError(status) == status >= 400 /\ status <= 499

\* No resume key of the table can be read from the cursor.
IsMalformedKey(decoded) == ~decoded.ok \/ ~IsResumeKey(decoded.key)

IsMalformed(cursor) == IsMalformedKey(DecodeCursor(cursor))

\* C1: GET /v1/items answers every malformed cursor (not base64, cut short,
\* not JSON, or JSON that is no resume key) with a 400-class status, never
\* with a 500 and never with a page.
C1_MalformedCursorIsClientError ==
    (IsV1 /\ HasCursor(resp.req.cursor) /\ IsMalformed(resp.req.cursor[1]))
        => IsClientError(resp.status)

IsPrefix(a, b) == Len(a) <= Len(b) /\ SubSeq(b, 1, Len(a)) = a

\* The ids of the table in scan order.
AllIds == PageIds(ScanOrder(table, 0))

\* The ids the session has been handed so far, page after page.
Visited == Concat(session.pages)

FiveIds == {IdName(i) : i \in 1..5}

FivePages == << <<IdName(1), IdName(2)>>, <<IdName(3), IdName(4)>>, <<IdName(5)>> >>

\* C2: a session that starts without a cursor and hands each next_cursor
\* back is given the items of the table in scan order, each once: what it
\* has been given is always a beginning of the scan order, a page that
\* carries a cursor is not empty, the session is done, with every item
\* given, after at most one page more than there are items, and the table
\* a, b, c, d, e read with limit 2 gives the pages [a, b], [c, d], [e].
C2_PagingVisitsEachItemOnce ==
    /\ IsPrefix(Visited, AllIds)
    /\ session.state = "done" => Visited = AllIds
    /\ session.state = "paging" => Len(session.pages[Len(session.pages)]) > 0
    /\ Len(session.pages) <= Cardinality(DOMAIN table) + 1
    /\ (session.state = "done" /\ DOMAIN table = FiveIds /\ session.limit = 2)
          => session.pages = FivePages

\* The table a..e has been read with limit 2 to the end.
C2_Witness ==
    /\ session.state = "done"
    /\ session.limit = 2
    /\ DOMAIN table = FiveIds
    /\ Len(session.pages) = 3
    /\ session.pages[3] = <<IdName(5)>>

\* C3: a successful GET /v1/items carries a next_cursor exactly when the
\* scan's answer has a LastEvaluatedKey, whatever the number of items.
C3_CursorIffContinuationKey ==
    (IsV1 /\ resp.status = 200)
        => (resp.body.next_cursor # <<>>
               <=> "LastEvaluatedKey" \in DOMAIN StoreResult.response)

\* A page shorter than limit that carries a cursor.
C3_Witness ==
    /\ IsV1
    /\ resp.status = 200
    /\ Len(resp.body.items) < resp.store[1].args["Limit"]
    /\ "LastEvaluatedKey" \in DOMAIN StoreResult.response
    /\ resp.body.next_cursor # <<>>

\* C4: GET /v1/items with an explicit limit below 1 or above 100 is answered
\* with a client error and no store call; a limit from 1 to 100 passes and is
\* the scan's Limit; without a limit the scan is issued with Limit 10.
C4_LimitRange ==
    IsV1 =>
        /\ (resp.req.limit # <<>> /\ (resp.req.limit[1] < 1 \/ resp.req.limit[1] > 100))
              => (IsClientError(resp.status) /\ resp.store = <<>>)
        /\ (resp.req.limit # <<>> /\ resp.req.limit[1] >= 1 /\ resp.req.limit[1] <= 100)
              => /\ resp.status # 422
                 /\ resp.store # <<>> => resp.store[1].args["Limit"] = resp.req.limit[1]
        /\ resp.req.limit = <<>>
              => /\ resp.status # 422
                 /\ resp.store # <<>> => resp.store[1].args["Limit"] = 10
                 /\ ~HasCursor(resp.req.cursor)
                       => (Len(resp.store) = 1 /\ resp.store[1].op = "scan")

\* The limit 101 has been refused.
C4_Witness ==
    /\ IsV1
    /\ resp.req.limit = <<101>>
    /\ resp.status = 422
    /\ resp.store = <<>>

\* C5: the cursor made of a resume key decodes to that key:
\* decode(encode(k)) = k.
C5_DecodeEncodeIsIdentity ==
    (codec.emitted /\ codec.step \in {"decoded", "reencoded"})
        => (codec.decoded[1].ok /\ codec.decoded[1].key = ResumeKey(codec.key))

\* The key made of a quote and the euro sign has gone through.
C5_Witness ==
    /\ codec.emitted
    /\ codec.step = "decoded"
    /\ codec.key = <<Ord("\""), 8364>>
    /\ codec.decoded[1].ok
    /\ codec.decoded[1].key.members[1].val.str = <<Ord("\""), 8364>>

\* C6 as stated: every token that decodes encodes back to itself.
C6_AcceptedTokenReencodes ==
    codec.step = "reencoded" => codec.reencoded = codec.token

\* C6, amended: every token made by encode decodes, and its key encodes back
\* to the same token: encode(decode(encode(k))) = encode(k).
C6_EmittedTokenReencodes ==
    codec.emitted =>
        /\ codec.step = "decoded" => codec.decoded[1].ok
        /\ codec.step = "reencoded" => codec.reencoded = codec.token

\* The token of the key "e acute, newline" has come back.
C6_Witness ==
    /\ codec.emitted
    /\ codec.step = "reencoded"
    /\ codec.key = <<233, 10>>
    /\ codec.reencoded = codec.token

\* C7: GET /items answers with every item of the table, also when the scan's
\* answer is partial.
C7_GetItemsReturnsEveryItem ==
    (resp.op = "get_items" /\ resp.status = 200) => resp.body = ScanOrder(resp.before, 0)

IsPutOrDelete == resp.op \in {"update_item", "delete_item"}

IsMissing == resp.req.item_id \notin DOMAIN resp.before

\* The body of a PUT with its id set to the path's.
PutBody ==
    [f \in DOMAIN resp.req.item \cup {"id"} |->
        IF f = "id" THEN resp.req.item_id ELSE resp.req.item[f]]

\* The table a PUT found, with PutBody under the path's id.
PutTable ==
    [k \in DOMAIN resp.before \cup {resp.req.item_id} |->
        IF k = resp.req.item_id THEN PutBody ELSE resp.before[k]]

\* C8 as stated: PUT and DELETE on an id without an item answer 404 and
\* leave the table as it was.
C8_MissingIdIs404 ==
    (IsPutOrDelete /\ IsMissing) => (resp.status = 404 /\ table = resp.before)

\* C8, amended: on an id without an item, PUT stores the body under that id
\* and answers 200 with it, DELETE answers 204 and leaves the table as it
\* was; when the store fails, both answer 500 and leave the table as it was.
C8_MissingIdUpsertsOrSucceeds ==
    (IsPutOrDelete /\ IsMissing) =>
        IF ~StoreResult.ok THEN resp.status = 500 /\ table = resp.before
        ELSE IF resp.op = "update_item"
        THEN resp.status = 200 /\ resp.body = PutBody /\ table = PutTable
        ELSE resp.status = 204 /\ table = resp.before

\* A PUT has made the item of an id that had none.
C8_Witness ==
    /\ resp.op = "update_item"
    /\ IsMissing
    /\ resp.status = 200
    /\ resp.req.item_id \in DOMAIN table

IsGet == resp.op \in {"get_item", "get_item_property"}

HasProperty ==
    /\ ~IsMissing
    /\ resp.req.property_name \in DOMAIN resp.before[resp.req.item_id]

\* C9: when the store answers, GET /items/{id} answers 404 exactly when the
\* id has no item and else 200 with the item; GET /items/{id}/{property}
\* answers 404 when the id has no item or the item has no such property and
\* else 200 with that property alone; a 404 leaves as a 404 (only a store
\* failure is a 500), and the table is left as it was.
C9_GetAnswers404WhenMissing ==
    IsGet =>
        /\ table = resp.before
        /\ resp.status = 500 <=> ~StoreResult.ok
        /\ (resp.op = "get_item" /\ StoreResult.ok) =>
              /\ resp.status = 404 <=> IsMissing
              /\ ~IsMissing =>
                    (resp.status = 200 /\ resp.body = resp.before[resp.req.item_id])
        /\ (resp.op = "get_item_property" /\ StoreResult.ok) =>
              /\ resp.status = 404 <=> ~HasProperty
              /\ HasProperty =>
                    /\ resp.status = 200
                    /\ DOMAIN resp.body = {resp.req.property_name}
                    /\ resp.body[resp.req.property_name]
                          = resp.before[resp.req.item_id][resp.req.property_name]

\* An item that is there has been asked for a property it has not.
C9_Witness ==
    /\ resp.op = "get_item_property"
    /\ ~IsMissing
    /\ ~HasProperty
    /\ resp.status = 404

\* C10: after a successful PUT the table holds, under the path's id, the
\* body with its id set to the path's and nothing of the item that was
\* there, and under every other id what it held; and at all times a stored
\* item's id is the key it is stored under.
C10_PutReplacesWholeItem ==
    /\ (resp.op = "update_item" /\ resp.status = 200) =>
          /\ DOMAIN table = DOMAIN resp.before \cup {resp.req.item_id}
          /\ table[resp.req.item_id] = PutBody
          /\ \A k \in DOMAIN table \ {resp.req.item_id} : table[k] = resp.before[k]
    /\ \A k \in DOMAIN table : table[k]["id"] = k

\* A PUT whose body names another id and no name has replaced an item that
\* had a name.
C10_Witness ==
    /\ resp.op = "update_item"
    /\ resp.status = 200
    /\ ~IsMissing
    /\ "name" \in DOMAIN resp.before[resp.req.item_id]
    /\ "id" \in DOMAIN resp.req.item
    /\ resp.req.item["id"] # resp.req.item_id
    /\ "name" \notin DOMAIN resp.req.item
    /\ DOMAIN table[resp.req.item_id] = {"id"}

\* The limit a GET /v1/items request asks for.
AskedLimit == IF resp.req.limit = <<>> THEN 10 ELSE resp.req.limit[1]

\* C11: a successful GET /v1/items page holds at most limit items, and they
\* are the items of the scan's answer, in the answer's order: the items
\* that follow the cursor's key in the table's scan order.
C11_PageIsScanAnswer ==
    (IsV1 /\ resp.status = 200) =>
        /\ Len(resp.body.items) <= AskedLimit
        /\ resp.store[1].args["Limit"] = AskedLimit
        /\ resp.body.items = StoreResult.response["Items"]
        /\ IsPrefix(resp.body.items,
                    ScanOrder(resp.before, ScanStart(resp.store[1].args)))

\* A page of three items, asked for with limit 3 and a cursor.
C11_Witness ==
    /\ IsV1
    /\ resp.status = 200
    /\ resp.req.limit = <<3>>
    /\ HasCursor(resp.req.cursor)
    /\ Len(resp.body.items) = 3

\* A store call of the request has failed.
StoreCallFailed == \E i \in 1..Len(resp.store) : ~resp.store[i].result.ok

\* C12: a request whose store call fails ends with a 500-class status after
\* that one call; no request makes more than one store call.
C12_StoreFailureIs500 ==
    /\ Len(resp.store) <= 1
    /\ StoreCallFailed => (resp.status >= 500 /\ resp.status <= 599)

\* The scan of a GET /v1/items without a cursor has failed.
C12_Witness ==
    /\ IsV1
    /\ ~HasCursor(resp.req.cursor)
    /\ Len(resp.store) = 1
    /\ StoreCallFailed
    /\ resp.status = 500

\* The pages a client reading the table alone with this limit is given: runs
\* of the scan order, each as long as one scan answers.
AlonePage(i, m) == SubSeq(AllIds, (i - 1) * m + 1, Min(i * m, Len(AllIds)))

PagesAsAlone(s, m) == \A i \in 1..Len(s.pages) : s.pages[i] = AlonePage(i, m)

LastId(s) == s.pages[Len(s.pages)][Len(s.pages[Len(s.pages)])]

\* C13: with clients paging at once, each client is given the pages it would
\* be given alone, a client that is done has been given every item once, in
\* scan order, and two clients whose last pages end at the same item hold
\* the identical cursor.
C13_ClientsPageIndependently ==
    \A c \in Clients :
        /\ PagesAsAlone(session.clients[c],
                        Min(session.clients[c].limit, session.scan.cap))
        /\ session.clients[c].state = "done"
              => Concat(session.clients[c].pages) = AllIds
        /\ \A d \in Clients :
              (/\ session.clients[c].state = "paging"
               /\ session.clients[d].state = "paging"
               /\ LastId(session.clients[c]) = LastId(session.clients[d]))
                  => session.clients[c].cursor = session.clients[d].cursor

\* Two clients with different limits have both read the table a..e to the
\* end, the last request being of the client that began first.
C13_Witness ==
    /\ DOMAIN table = FiveIds
    /\ session.clients["c1"].state = "done"
    /\ session.clients["c2"].state = "done"
    /\ session.clients["c1"].limit = 2
    /\ session.clients["c2"].limit = 3
    /\ session.clients["c1"].pages = FivePages
    /\ Len(session.clients["c2"].pages) = 2

\* The characters that have to be escaped in the value of a query parameter.
UrlUnsafe == {Ord("+"), Ord("/"), Ord("=")}

\* C14: a cursor made by EncodeCursor has no "+", "/" or "=", and written
\* as it is after "cursor=" it reaches the handler as the text that decodes
\* to the resume key it was made from.
C14_EmittedCursorIsUrlSafe ==
    (codec.emitted /\ codec.step = "encoded") =>
        /\ \A i \in 1..Len(codec.token) : codec.token[i] \notin UrlUnsafe
        /\ DecodeCursor(QueryParam(codec.token))
              = [ok |-> TRUE, key |-> ResumeKey(codec.key)]

\* C15: in the dashboard's V1 mode the session's cursor is the next_cursor
\* of the last successful response, a failed request leaves it as the
\* request carried it, every successful response's page is shown, and the
\* pages shown since the last request without a cursor are the table's
\* items from the first on, in scan order, none left out.
C15_DashboardShowsFollowingPage ==
    /\ session.state = "idle" => session.cursor = <<>>
    /\ (resp.op # "none" /\ resp.status = 200)
          => (session.cursor = resp.body.next_cursor /\ session.state # "error")
    /\ (resp.op # "none" /\ resp.status # 200) => session.cursor = resp.req.cursor
    /\ IsPrefix(Concat(session.pages), AllIds)

=============================================================================
